---- MODULE Spec2Model ----
(***************************************************************************)
(* State-machine model of SqliteSaver (src/src/index.ts): the checkpoints  *)
(* and writes tables of the backing store, the one-shot schema setup, and  *)
(* the operations getTuple, list, put, putWrites and deleteThread, cut     *)
(* into steps at the storage round trips (the awaits on db.execute and     *)
(* db.batch).                                                              *)
(*                                                                         *)
(* Conventions.  A JavaScript value that may be undefined, and an SQL      *)
(* column that may be NULL, is a set with at most one element.  A TEXT     *)
(* value that SQL orders (checkpoint_id, checkpoint_ns, task_id) is a      *)
(* sequence of character codes, compared the way SQLite's BINARY collation *)
(* compares it.  JSON text is a sequence of tokens.                        *)
(***************************************************************************)
EXTENDS Integers, Sequences, FiniteSets, TLC

VARIABLES
  checkpoints,  \* rows of table checkpoints
  writes,       \* rows of table writes
  tables,       \* names of the tables that exist in the database
  isSetup,      \* SqliteSaver.isSetup
  pc,           \* per call slot: where the call in that slot stands
  frame,        \* per call slot: the locals of a read that is under way
  ret,          \* what the step just taken returned or threw, until the
                \* caller has taken it
  lastPut,      \* history: per primary key, the arguments of the last put
  used          \* number of put, putWrites and deleteThread calls so far

vars == <<checkpoints, writes, tables, isSetup, pc, frame, ret, lastPut, used>>

-----------------------------------------------------------------------------
(* Optional values *)

Undefined == {}
Some(v) == {v}
IsDefined(o) == o # {}
Val(o) == CHOOSE v \in o : TRUE
\* a ?? b
OrElse(o, d) == IF IsDefined(o) THEN Val(o) ELSE d

-----------------------------------------------------------------------------
(* TEXT values and their order *)

\* SQLite compares TEXT byte by byte; a proper prefix sorts first.
RECURSIVE TextLess(_, _)
TextLess(a, b) ==
  IF a = <<>> THEN b # <<>>
  ELSE IF b = <<>> THEN FALSE
  ELSE IF Head(a) # Head(b) THEN Head(a) < Head(b)
  ELSE TextLess(Tail(a), Tail(b))

\* Truthiness of a possibly undefined string: `if (checkpoint_id)`.
Truthy(o) == IsDefined(o) /\ Val(o) # <<>>

TASKS == "__pregel_tasks"

-----------------------------------------------------------------------------
(* JSON values and JSON text *)

JStr(s) == [t |-> "str", s |-> s]
JNum(n) == [t |-> "num", n |-> n]
\* an object with string values; kv lists its entries in insertion order
JObj(kv) == [t |-> "obj", kv |-> kv]

Digits == <<"0", "1", "2", "3", "4", "5", "6", "7", "8", "9">>

RECURSIVE EntriesText(_)
EntriesText(kv) ==
  IF kv = <<>> THEN <<>>
  ELSE <<"\"", kv[1][1], "\"", ":", "\"", kv[1][2], "\"">>
       \o (IF Len(kv) > 1 THEN <<",">> ELSE <<>>)
       \o EntriesText(Tail(kv))

\* JSON.stringify(value): an object's entries are written in insertion order.
JSONStringify(v) ==
  CASE v.t = "str" -> <<"\"", v.s, "\"">>
    [] v.t = "num" -> <<Digits[v.n + 1]>>
    [] v.t = "obj" -> <<"{">> \o EntriesText(v.kv) \o <<"}">>

RECURSIVE ParseEntries(_)
ParseEntries(tx) ==
  IF tx = <<>> THEN <<>>
  ELSE <<<<tx[2], tx[6]>>>>
       \o ParseEntries(IF Len(tx) > 7 THEN SubSeq(tx, 9, Len(tx)) ELSE <<>>)

\* JSON.parse(text)
JSONParse(tx) ==
  IF tx[1] = "\"" THEN JStr(tx[2])
  ELSE IF tx[1] = "{" THEN JObj(ParseEntries(SubSeq(tx, 2, Len(tx) - 1)))
  ELSE JNum((CHOOSE i \in 1..Len(Digits) : Digits[i] = tx[1]) - 1)

-----------------------------------------------------------------------------
(* The serializer (this.serde) and blobToString *)

\* A value the serializer cannot encode (dumpsTyped rejects).
Cyclic == [t |-> "cyclic"]
\* A value the serializer tags "bytes" instead of "json".
Binary(b) == [t |-> "bin", b |-> b]
\* What decoding yields when the tag does not fit the stored bytes.
Garbled == [t |-> "garbled"]

Serializable(v) == ~("t" \in DOMAIN v /\ v.t = "cyclic")

TagOf(v) == IF "t" \in DOMAIN v /\ v.t = "bin" THEN "bytes" ELSE "json"

\* The bytes of a value: raw bytes, the JSON text of a scalar or object, the
\* JSON document of a checkpoint, or the JSON document of a metadata object
\* (kept field by field, which is how the SQL filter of list reads it).
Document(v) ==
  IF "t" \in DOMAIN v
  THEN IF v.t = "bin" THEN [raw |-> v.b] ELSE [text |-> JSONStringify(v)]
  ELSE IF "channel_values" \in DOMAIN v
       THEN [checkpoint |-> v]
       ELSE [fields |-> [k \in DOMAIN v |-> JSONStringify(v[k])]]

\* this.serde.dumpsTyped(value) -> [type, bytes]
dumpsTyped(v) == <<TagOf(v), Document(v)>>

\* this.serde.loadsTyped(type, bytes)
loadsTyped(type, doc) ==
  IF type = "bytes"
  THEN IF "raw" \in DOMAIN doc THEN Binary(doc.raw) ELSE Garbled
  ELSE IF "text" \in DOMAIN doc THEN JSONParse(doc.text)
  ELSE IF "checkpoint" \in DOMAIN doc THEN doc.checkpoint
  ELSE IF "fields" \in DOMAIN doc
       THEN [k \in DOMAIN doc.fields |-> JSONParse(doc.fields[k])]
       ELSE Garbled

\* A BLOB cell as the client returns it, and a TEXT cell.
Buffer(doc) == [rep |-> "buffer", doc |-> doc]
Text(doc) == [rep |-> "text", doc |-> doc]
EmptyDoc == [text |-> <<>>]

\* blobToString(val): ArrayBuffer and string both give the string; else "".
blobToString(val) ==
  IF IsDefined(val) /\ Val(val).rep \in {"buffer", "text"}
  THEN Val(val).doc
  ELSE EmptyDoc

\* copyCheckpoint(checkpoint) of the checkpoint library: a field-wise copy.
copyCheckpoint(c) ==
  [v |-> c.v, id |-> c.id,
   channel_values |-> [k \in DOMAIN c.channel_values |-> c.channel_values[k]],
   channel_versions |->
     [k \in DOMAIN c.channel_versions |-> c.channel_versions[k]]]

-----------------------------------------------------------------------------
(* The two tables and the statements the code issues against them *)

\* PRIMARY KEY (thread_id, checkpoint_ns, checkpoint_id)
CheckpointKey(r) == <<r.thread_id, r.checkpoint_ns, r.checkpoint_id>>
\* PRIMARY KEY (thread_id, checkpoint_ns, checkpoint_id, task_id, idx)
WriteKey(r) ==
  <<r.thread_id, r.checkpoint_ns, r.checkpoint_id, r.task_id, r.idx>>

InsertCheckpoint(table, row) == table \cup {row}

\* INSERT OR REPLACE INTO checkpoints: a row with the same key is removed.
InsertOrReplaceCheckpoint(table, row) ==
  {r \in table : CheckpointKey(r) # CheckpointKey(row)} \cup {row}

InsertWrite(table, row) == table \cup {row}

InsertOverTaskWrites(table, row) ==
  {r \in table :
     \/ <<r.thread_id, r.checkpoint_ns, r.checkpoint_id, r.task_id>>
          # <<row.thread_id, row.checkpoint_ns, row.checkpoint_id,
              row.task_id>>
     \/ r.idx < row.idx} \cup {row}

\* INSERT OR REPLACE INTO writes
InsertOrReplaceWrite(table, row) ==
  {r \in table : WriteKey(r) # WriteKey(row)} \cup {row}

\* The statements of one batch, applied in order.
RECURSIVE ApplyWrites(_, _)
ApplyWrites(table, rows) ==
  IF rows = <<>> THEN table
  ELSE ApplyWrites(InsertOrReplaceWrite(table, Head(rows)), Tail(rows))

\* The order in which SQLite scans the rows of writes it finds through the
\* primary-key index: by (checkpoint_ns, checkpoint_id, task_id, idx) within
\* one thread.  The subqueries name no order for json_group_array; this is
\* the order the index search gives.
WriteBefore(a, b) ==
  IF a.checkpoint_ns # b.checkpoint_ns
  THEN TextLess(a.checkpoint_ns, b.checkpoint_ns)
  ELSE IF a.checkpoint_id # b.checkpoint_id
  THEN TextLess(a.checkpoint_id, b.checkpoint_id)
  ELSE IF a.task_id # b.task_id THEN TextLess(a.task_id, b.task_id)
  ELSE a.idx < b.idx

RECURSIVE IndexScan(_)
IndexScan(rows) ==
  IF rows = {} THEN <<>>
  ELSE LET first == CHOOSE r \in rows :
                      \A q \in rows \ {r} : WriteBefore(r, q)
       IN <<first>> \o IndexScan(rows \ {first})

PendingWritesColumnAnyNs(row) ==
  LET own == {w \in writes : /\ w.thread_id = row.thread_id
                             /\ w.checkpoint_id = row.checkpoint_id}
      scan == IndexScan(own)
  IN Text([i \in 1..Len(scan) |->
             [task_id |-> scan[i].task_id, channel |-> scan[i].channel,
              type |-> scan[i].type, value |-> scan[i].value.doc]])

\* The pending_writes subquery of getTuple and list for one checkpoints row:
\* json_group_array(json_object('task_id', 'channel', 'type', 'value')).
PendingWritesColumn(row) ==
  LET own == {w \in writes : /\ w.thread_id = row.thread_id
                             /\ w.checkpoint_ns = row.checkpoint_ns
                             /\ w.checkpoint_id = row.checkpoint_id}
      scan == IndexScan(own)
  IN Text([i \in 1..Len(scan) |->
             [task_id |-> scan[i].task_id, channel |-> scan[i].channel,
              type |-> scan[i].type, value |-> scan[i].value.doc]])

Least(rows) ==
  {r \in rows : \A q \in rows : ~TextLess(q.checkpoint_id, r.checkpoint_id)}

\* Rows with no greater checkpoint_id among `rows`.
Greatest(rows) ==
  {r \in rows : \A q \in rows : ~TextLess(r.checkpoint_id, q.checkpoint_id)}

\* ORDER BY checkpoint_id DESC: every order SQL allows (rows with the same
\* checkpoint_id, which only differ in thread or namespace, in any order).
RECURSIVE OrderByCheckpointIdDesc(_)
OrderByCheckpointIdDesc(rows) ==
  IF rows = {} THEN {<<>>}
  ELSE UNION {{<<r>> \o rest : rest \in OrderByCheckpointIdDesc(rows \ {r})}
              : r \in Greatest(rows)}

-----------------------------------------------------------------------------
(* Configs *)

\* { configurable: { thread_id, checkpoint_ns, checkpoint_id } }
Config(thread_id, checkpoint_ns, checkpoint_id) ==
  [configurable |-> Some([thread_id |-> thread_id,
                          checkpoint_ns |-> checkpoint_ns,
                          checkpoint_id |-> checkpoint_id])]
\* a config with no `configurable`
EmptyConfig == [configurable |-> Undefined]

\* config.configurable?.<name>
Field(config, name) ==
  IF IsDefined(config.configurable)
  THEN Val(config.configurable)[name]
  ELSE Undefined

-----------------------------------------------------------------------------
(* Bounds *)

\* Two calls may be under way at once.
Slots == {1, 2}
\* put, putWrites and deleteThread calls in one run (reads are not counted):
\* of the runs about checkpoints, and of the runs about pending writes.
MaxCalls == 3
MaxWritesCalls == 4
\* list is called with limit 0..MaxLimit.
MaxLimit == 2

CurrentVersion == 4

\* Thread ids, and the namespaces "" (the default) and a child namespace.
T1 == <<7>>
T2 == <<8>>
NsRoot == <<>>
NsChild == <<5>>

-----------------------------------------------------------------------------
(* Results *)

NoCall == [op |-> "none"]
NoFrame == [op |-> "none"]

\* `dirty` (history): a write statement ran between the first statement of
\* the call and its return, so what it returns is not one state of the store.
Returned(op, args, out, dirty) ==
  [op |-> op, args |-> args, status |-> "ok", out |-> out, dirty |-> dirty]
Threw(op, args, error) ==
  [op |-> op, args |-> args, status |-> "error", out |-> error,
   dirty |-> FALSE]

SetupSteps == {"journal", "createCheckpoints", "createWrites", "setFlag"}

\* What a step returns or throws is taken by its caller before the next step
\* is taken.
Taken == ret = NoCall

\* True of a slot whose call has passed `await this.setup()`: its setup has
\* run ("ready"), or the call starts when isSetup is already set and setup
\* returns at once.  Calls pick their arguments when they first use them, so
\* a call that waits at "ready" is the same as a call that starts later: a
\* new call starts only when no call waits there.  Once a call is past
\* setup both tables exist and the steps of a setup still under way change
\* nothing, whatever their order with other statements: they are taken
\* first.
PastSetup(c) ==
  /\ Taken
  /\ \A d \in Slots : pc[d] \notin SetupSteps
  /\ \/ pc[c] = "ready"
     \/ pc[c] = "idle" /\ isSetup /\ \A d \in Slots : pc[d] # "ready"

\* Reads do not act on each other: a read starts only when no other read is
\* under way.
NoReadUnderWay == \A d \in Slots : frame[d].op = "none"

-----------------------------------------------------------------------------
(* setup *)

\* if (this.isSetup) return; otherwise go on to PRAGMA journal_mode=WAL
SetupBegin(c) ==
  /\ Taken
  /\ pc[c] = "idle"
  /\ ~isSetup
  /\ pc' = [pc EXCEPT ![c] = "journal"]
  /\ UNCHANGED <<checkpoints, writes, tables, isSetup, frame, ret, lastPut,
                 used>>

\* PRAGMA journal_mode=WAL: whether it succeeds or throws, setup goes on.
SetupJournalMode(c) ==
  /\ Taken
  /\ pc[c] = "journal"
  /\ pc' = [pc EXCEPT ![c] = "createCheckpoints"]
  /\ UNCHANGED <<checkpoints, writes, tables, isSetup, frame, ret, lastPut,
                 used>>

\* CREATE TABLE IF NOT EXISTS checkpoints
SetupCreateCheckpoints(c) ==
  /\ Taken
  /\ pc[c] = "createCheckpoints"
  /\ tables' = tables \cup {"checkpoints"}
  /\ pc' = [pc EXCEPT ![c] = "createWrites"]
  /\ UNCHANGED <<checkpoints, writes, isSetup, frame, ret, lastPut, used>>

\* CREATE TABLE IF NOT EXISTS writes
SetupCreateWrites(c) ==
  /\ Taken
  /\ pc[c] = "createWrites"
  /\ tables' = tables \cup {"writes"}
  /\ pc' = [pc EXCEPT ![c] = "setFlag"]
  /\ UNCHANGED <<checkpoints, writes, isSetup, frame, ret, lastPut, used>>

\* this.isSetup = true
SetupDone(c) ==
  /\ Taken
  /\ pc[c] = "setFlag"
  /\ isSetup' = TRUE
  /\ pc' = [pc EXCEPT ![c] = "ready"]
  /\ UNCHANGED <<checkpoints, writes, tables, frame, ret, lastPut, used>>

\* A write statement has run: the reads under way have seen an older store.
MarkDirty(f) == [c \in Slots |->
                   IF f[c].op = "none" THEN f[c]
                   ELSE [f[c] EXCEPT !.dirty = TRUE]]

-----------------------------------------------------------------------------
(* put *)

putRowAsRoot(config, checkpoint, metadata) ==
  [thread_id |-> Val(Field(config, "thread_id")),
   checkpoint_ns |-> OrElse(Field(config, "checkpoint_ns"), NsRoot),
   checkpoint_id |-> checkpoint.id,
   parent_checkpoint_id |-> Undefined,
   type |-> Some(dumpsTyped(copyCheckpoint(checkpoint))[1]),
   checkpoint |-> Buffer(dumpsTyped(copyCheckpoint(checkpoint))[2]),
   metadata |-> Buffer(dumpsTyped(metadata)[2])]

\* The row put binds to its INSERT OR REPLACE statement.
putRow(config, checkpoint, metadata) ==
  [thread_id |-> Val(Field(config, "thread_id")),
   checkpoint_ns |-> OrElse(Field(config, "checkpoint_ns"), NsRoot),
   checkpoint_id |-> checkpoint.id,
   parent_checkpoint_id |-> Field(config, "checkpoint_id"),
   type |-> Some(dumpsTyped(copyCheckpoint(checkpoint))[1]),
   checkpoint |-> Buffer(dumpsTyped(copyCheckpoint(checkpoint))[2]),
   metadata |-> Buffer(dumpsTyped(metadata)[2])]

putErrorUnlessTagsDiffer(config, checkpoint, metadata) ==
  IF ~IsDefined(config.configurable)
  THEN "Empty configuration supplied."
  ELSE IF ~Truthy(Field(config, "thread_id"))
  THEN "Missing \"thread_id\" field in passed \"config.configurable\"."
  ELSE IF ~Serializable(checkpoint) \/ ~Serializable(metadata)
  THEN "serializer error"
  ELSE ""

\* The error put throws before it issues its statement, "" when none.
putError(config, checkpoint, metadata) ==
  IF ~IsDefined(config.configurable)
  THEN "Empty configuration supplied."
  ELSE IF ~Truthy(Field(config, "thread_id"))
  THEN "Missing \"thread_id\" field in passed \"config.configurable\"."
  ELSE IF ~Serializable(checkpoint) \/ ~Serializable(metadata)
  THEN "serializer error"
  ELSE IF dumpsTyped(copyCheckpoint(checkpoint))[1] # dumpsTyped(metadata)[1]
  THEN "Failed to serialized checkpoint and metadata to the same type."
  ELSE ""

\* The config put returns.
putResult(config, checkpoint) ==
  Config(Field(config, "thread_id"),
         Some(OrElse(Field(config, "checkpoint_ns"), NsRoot)),
         Some(checkpoint.id))

put(c, inputs, calls) ==
  /\ PastSetup(c)
  /\ used < calls
  /\ \E a \in inputs :
       LET error == putError(a.config, a.checkpoint, a.metadata)
           row == putRow(a.config, a.checkpoint, a.metadata)
       IN IF error # ""
          THEN /\ ret' = Threw("put", a, error)
               /\ UNCHANGED <<checkpoints, lastPut, frame>>
          ELSE /\ checkpoints' = InsertOrReplaceCheckpoint(checkpoints, row)
               /\ ret' = Returned("put", a,
                                   putResult(a.config, a.checkpoint), FALSE)
               /\ lastPut' =
                    {h \in lastPut : h.key # CheckpointKey(row)}
                    \cup {[key |-> CheckpointKey(row),
                           checkpoint |-> a.checkpoint,
                           metadata |-> a.metadata,
                           parent |-> Field(a.config, "checkpoint_id"),
                           over |->
                             IF row \in checkpoints THEN "same"
                             ELSE IF \E r \in checkpoints :
                                       CheckpointKey(r) = CheckpointKey(row)
                             THEN "other"
                             ELSE "none"]}
               /\ frame' = MarkDirty(frame)
  /\ pc' = [pc EXCEPT ![c] = "idle"]
  /\ used' = used + 1
  /\ UNCHANGED <<writes, tables, isSetup>>

-----------------------------------------------------------------------------
(* getTuple and migratePendingSends *)

\* The rows the statement of getTuple returns: the row with the given
\* checkpoint_id, or (ORDER BY checkpoint_id DESC LIMIT 1) the greatest one.
getTupleRows(thread_id, checkpoint_ns, checkpoint_id) ==
  LET partition == {r \in checkpoints : /\ r.thread_id = thread_id
                                        /\ r.checkpoint_ns = checkpoint_ns}
  IN IF Truthy(checkpoint_id)
     THEN {r \in partition : r.checkpoint_id = Val(checkpoint_id)}
     ELSE Greatest(partition)

decodeNoPendingWrites(column) == <<>>

\* pendingWrites: [task_id, channel, loadsTyped(type ?? "json", value ?? "")]
decodePendingWrites(column) ==
  LET parsed == blobToString(Some(column))
  IN [i \in 1..Len(parsed) |->
        <<parsed[i].task_id, parsed[i].channel,
          loadsTyped(OrElse(parsed[i].type, "json"), parsed[i].value)>>]

decodeCheckpoint(row) ==
  loadsTyped(OrElse(row.type, "json"), blobToString(Some(row.checkpoint)))

decodeMetadataOfCheckpoint(row) ==
  loadsTyped(OrElse(row.type, "json"), blobToString(Some(row.checkpoint)))

decodeMetadata(row) ==
  loadsTyped(OrElse(row.type, "json"), blobToString(Some(row.metadata)))

\* The error getTuple throws when the config it resolved, after its
\* statement returned a row, lacks a thread id or a checkpoint id.
MissingIds == "Missing thread_id or checkpoint_id"

\* checkpoint.v < 4 && row.parent_checkpoint_id != null
needsMigration(checkpoint, row) ==
  /\ "v" \in DOMAIN checkpoint
  /\ checkpoint.v < CurrentVersion
  /\ IsDefined(row.parent_checkpoint_id)

\* The tuple getTuple returns for a row.
getTupleResult(config, row, checkpoint, pendingWrites) ==
  LET checkpoint_ns == OrElse(Field(config, "checkpoint_ns"), NsRoot)
  IN [checkpoint |-> checkpoint,
      config |-> IF Truthy(Field(config, "checkpoint_id"))
                 THEN config
                 ELSE Config(Some(row.thread_id), Some(checkpoint_ns),
                             Some(row.checkpoint_id)),
      metadata |-> decodeMetadata(row),
      parentConfig |->
        IF Truthy(row.parent_checkpoint_id)
        THEN Some(Config(Some(row.thread_id), Some(checkpoint_ns),
                         row.parent_checkpoint_id))
        ELSE Undefined,
      pendingWrites |-> pendingWrites]

\* The statement of migratePendingSends: an aggregate without GROUP BY, so
\* it returns one row whatever the WHERE clause selects.  The clause names
\* the thread and the parent checkpoint id, and no namespace.
migrationRows(threadId, parentCheckpointId) ==
  LET sends == {w \in writes : /\ w.thread_id = threadId
                               /\ w.checkpoint_id = parentCheckpointId
                               /\ w.channel = TASKS}
      scan == IndexScan(sends)
  IN <<[pending_sends |->
          Text([i \in 1..Len(scan) |->
                  [type |-> scan[i].type, value |-> scan[i].value.doc]])]>>

minChannelVersion(versions) ==
  CHOOSE m \in versions : \A n \in versions : m <= n

\* maxChannelVersion(...versions)
maxChannelVersion(versions) ==
  CHOOSE m \in versions : \A n \in versions : n <= m

\* this.getNextVersion(undefined) of the base class
InitialVersion == 1

\* migratePendingSends, after its statement returned `rows`
migratePendingSends(checkpoint, rows) ==
  IF Len(rows) = 0 THEN checkpoint
  ELSE LET sends == blobToString(Some(rows[1].pending_sends))
           values == [i \in 1..Len(sends) |->
                        loadsTyped(Val(sends[i].type), sends[i].value)]
           cv == checkpoint.channel_values
           ver == checkpoint.channel_versions
           version == IF DOMAIN ver # {}
                      THEN maxChannelVersion({ver[k] : k \in DOMAIN ver})
                      ELSE InitialVersion
       IN [checkpoint EXCEPT
             !.channel_values =
                [k \in DOMAIN cv \cup {TASKS} |->
                   IF k = TASKS THEN values ELSE cv[k]],
             !.channel_versions =
                [k \in DOMAIN ver \cup {TASKS} |->
                   IF k = TASKS THEN version ELSE ver[k]]]

\* getTuple up to and including its SELECT and the decoding of the row.
getTuple(c, inputs) ==
  /\ PastSetup(c)
  /\ NoReadUnderWay
  /\ \E config \in inputs, bound \in {"throws", "null"} :
       LET thread_id == Field(config, "thread_id")
           checkpoint_ns == OrElse(Field(config, "checkpoint_ns"), NsRoot)
           rows == IF IsDefined(thread_id)
                   THEN getTupleRows(Val(thread_id), checkpoint_ns,
                                     Field(config, "checkpoint_id"))
                   ELSE {}
       IN \* an undefined thread_id is an undefined statement argument:
          \* the client rejects it, or binds NULL, which matches no row
          IF ~IsDefined(thread_id) /\ bound = "throws"
          THEN /\ ret' = Threw("getTuple", config, "executor error")
               /\ pc' = [pc EXCEPT ![c] = "idle"]
               /\ UNCHANGED frame
          ELSE IF rows = {}
          THEN /\ bound = "null"
               /\ ret' = Returned("getTuple", config, Undefined, FALSE)
               /\ pc' = [pc EXCEPT ![c] = "idle"]
               /\ UNCHANGED frame
          ELSE \E row \in rows :
                 LET pendingWrites ==
                       decodePendingWrites(PendingWritesColumn(row))
                     checkpoint == decodeCheckpoint(row)
                     finalConfig ==
                       getTupleResult(config, row, checkpoint,
                                      pendingWrites).config
                 IN /\ bound = "null"
                    /\ IF \/ ~IsDefined(Field(finalConfig, "thread_id"))
                          \/ ~IsDefined(Field(finalConfig, "checkpoint_id"))
                       THEN /\ ret' = Threw("getTuple", config, MissingIds)
                            /\ pc' = [pc EXCEPT ![c] = "idle"]
                            /\ UNCHANGED frame
                       ELSE IF needsMigration(checkpoint, row)
                       THEN /\ frame' = [frame EXCEPT ![c] =
                                 [op |-> "getTuple", config |-> config,
                                  row |-> row, checkpoint |-> checkpoint,
                                  pendingWrites |-> pendingWrites,
                                  dirty |-> FALSE]]
                            /\ pc' = [pc EXCEPT ![c] = "migrate"]
                            /\ UNCHANGED ret
                       ELSE /\ ret' = Returned("getTuple", config,
                                         Some(getTupleResult(config, row,
                                           checkpoint, pendingWrites)),
                                         FALSE)
                            /\ pc' = [pc EXCEPT ![c] = "idle"]
                            /\ UNCHANGED frame
  /\ UNCHANGED <<checkpoints, writes, tables, isSetup, lastPut, used>>

\* getTuple from the statement of migratePendingSends to its return.
getTupleMigrate(c) ==
  /\ Taken
  /\ pc[c] = "migrate"
  /\ LET f == frame[c]
         checkpoint ==
           migratePendingSends(f.checkpoint,
             migrationRows(f.row.thread_id, Val(f.row.parent_checkpoint_id)))
     IN ret' = Returned("getTuple", f.config,
                 Some(getTupleResult(f.config, f.row, checkpoint,
                                     f.pendingWrites)),
                 f.dirty)
  /\ frame' = [frame EXCEPT ![c] = NoFrame]
  /\ pc' = [pc EXCEPT ![c] = "idle"]
  /\ UNCHANGED <<checkpoints, writes, tables, isSetup, lastPut, used>>

-----------------------------------------------------------------------------
(* list *)

checkpointMetadataKeys == {"source", "step", "parents"}
validCheckpointMetadataKeys == checkpointMetadataKeys

KeepDefinedEntry(entry) == IsDefined(entry[2])

\* A filter is the sequence of its entries <<key, value>>, the value
\* possibly undefined.  sanitizedFilter keeps the entries with a defined
\* value and a recognized key.
KeepEntry(entry) ==
  IsDefined(entry[2]) /\ entry[1] \in validCheckpointMetadataKeys

sanitizedFilter(filter) == SelectSeq(filter, KeepEntry)

ListOptions(limit, before, filter) ==
  [limit |-> limit, before |-> before, filter |-> filter]

\* The WHERE clause of list, one entry per placeholder.
whereClause(config, options) ==
  (IF Truthy(Field(config, "thread_id"))
   THEN <<[col |-> "thread_id"]>> ELSE <<>>)
  \o (IF IsDefined(Field(config, "checkpoint_ns"))
      THEN <<[col |-> "checkpoint_ns"]>> ELSE <<>>)
  \o (IF IsDefined(options.before)
         /\ IsDefined(Field(Val(options.before), "checkpoint_id"))
      THEN <<[col |-> "checkpoint_id"]>> ELSE <<>>)
  \o [i \in 1..Len(sanitizedFilter(options.filter)) |->
        [col |-> "metadata", key |-> sanitizedFilter(options.filter)[i][1]]]

\* The arguments bound to the placeholders: the defined ones, in order.
listArgs(config, options) ==
  (IF IsDefined(Field(config, "thread_id"))
   THEN <<Val(Field(config, "thread_id"))>> ELSE <<>>)
  \o (IF IsDefined(Field(config, "checkpoint_ns"))
      THEN <<Val(Field(config, "checkpoint_ns"))>> ELSE <<>>)
  \o (IF IsDefined(options.before)
         /\ IsDefined(Field(Val(options.before), "checkpoint_id"))
      THEN <<Val(Field(Val(options.before), "checkpoint_id"))>> ELSE <<>>)
  \o [i \in 1..Len(sanitizedFilter(options.filter)) |->
        JSONStringify(Val(sanitizedFilter(options.filter)[i][2]))]

\* jsonb(CAST(metadata AS TEXT))->'$.key': the JSON text of the field, NULL
\* when the document has no such field.
MetadataField(row, key) ==
  IF "fields" \in DOMAIN row.metadata.doc
     /\ key \in DOMAIN row.metadata.doc.fields
  THEN Some(row.metadata.doc.fields[key])
  ELSE Undefined

SatisfiesUpTo(row, clause, arg) ==
  CASE clause.col = "thread_id" -> row.thread_id = arg
    [] clause.col = "checkpoint_ns" -> row.checkpoint_ns = arg
    [] clause.col = "checkpoint_id" ->
         row.checkpoint_id = arg \/ TextLess(row.checkpoint_id, arg)
    [] clause.col = "metadata" ->
         MetadataField(row, clause.key) = Some(arg)

\* One condition of the WHERE clause with its bound argument.
Satisfies(row, clause, arg) ==
  CASE clause.col = "thread_id" -> row.thread_id = arg
    [] clause.col = "checkpoint_ns" -> row.checkpoint_ns = arg
    [] clause.col = "checkpoint_id" -> TextLess(row.checkpoint_id, arg)
    [] clause.col = "metadata" ->
         MetadataField(row, clause.key) = Some(arg)

\* if (limit) sql += ` LIMIT ${limitNum}`
applyLimit(rows, limit) ==
  IF IsDefined(limit) /\ Val(limit) # 0
  THEN SubSeq(rows, 1, IF Val(limit) < Len(rows) THEN Val(limit)
                       ELSE Len(rows))
  ELSE rows

\* The row sequences the statement of list may return.
listRows(config, options) ==
  LET where == whereClause(config, options)
      args == listArgs(config, options)
      matching == {r \in checkpoints :
                     \A i \in 1..Len(where) : Satisfies(r, where[i], args[i])}
  IN {applyLimit(order, options.limit)
        : order \in OrderByCheckpointIdDesc(matching)}

\* The tuple list yields for a row.
listResult(row, checkpoint, pendingWrites) ==
  [config |-> Config(Some(row.thread_id), Some(row.checkpoint_ns),
                     Some(row.checkpoint_id)),
   checkpoint |-> checkpoint,
   metadata |-> decodeMetadata(row),
   parentConfig |->
     IF Truthy(row.parent_checkpoint_id)
     THEN Some(Config(Some(row.thread_id), Some(row.checkpoint_ns),
                      row.parent_checkpoint_id))
     ELSE Undefined,
   pendingWrites |-> pendingWrites]

\* The loop of list over the fetched rows, run until a row needs the
\* statement of migratePendingSends or no row is left.
RECURSIVE listAdvance(_, _)
listAdvance(fetched, yielded) ==
  IF fetched = <<>> THEN [rows |-> <<>>, yielded |-> yielded]
  ELSE LET checkpoint == decodeCheckpoint(Head(fetched).row)
       IN IF needsMigration(checkpoint, Head(fetched).row)
          THEN [rows |-> fetched, yielded |-> yielded]
          ELSE listAdvance(Tail(fetched),
                 Append(yielded,
                        listResult(Head(fetched).row, checkpoint,
                                   Head(fetched).pendingWrites)))

\* list up to and including its SELECT, and its loop up to the first row
\* that needs the statement of migratePendingSends.
list(c, inputs) ==
  /\ PastSetup(c)
  /\ NoReadUnderWay
  /\ \E a \in inputs :
       IF Len(whereClause(a.config, a.options))
            # Len(listArgs(a.config, a.options))
       THEN \* the statement has fewer placeholders than arguments
            /\ ret' = Threw("list", a, "executor error")
            /\ pc' = [pc EXCEPT ![c] = "idle"]
            /\ UNCHANGED frame
       ELSE \E rows \in listRows(a.config, a.options) :
              LET fetched == [i \in 1..Len(rows) |->
                                [row |-> rows[i],
                                 pendingWrites |->
                                   decodePendingWrites(
                                     PendingWritesColumn(rows[i]))]]
                  next == listAdvance(fetched, <<>>)
              IN IF next.rows = <<>>
                 THEN /\ ret' = Returned("list", a, next.yielded, FALSE)
                      /\ pc' = [pc EXCEPT ![c] = "idle"]
                      /\ UNCHANGED frame
                 ELSE /\ frame' = [frame EXCEPT ![c] =
                            [op |-> "list", args |-> a, rows |-> next.rows,
                             yielded |-> next.yielded, dirty |-> FALSE]]
                      /\ pc' = [pc EXCEPT ![c] = "listMigrate"]
                      /\ UNCHANGED ret
  /\ UNCHANGED <<checkpoints, writes, tables, isSetup, lastPut, used>>

\* list from the statement of migratePendingSends for the row at hand to the
\* next such statement or the end of the loop.
listMigrate(c) ==
  /\ Taken
  /\ pc[c] = "listMigrate"
  /\ LET f == frame[c]
         at == Head(f.rows)
         checkpoint ==
           migratePendingSends(decodeCheckpoint(at.row),
             migrationRows(at.row.thread_id,
                           Val(at.row.parent_checkpoint_id)))
         next == listAdvance(Tail(f.rows),
                   Append(f.yielded,
                          listResult(at.row, checkpoint, at.pendingWrites)))
     IN IF next.rows = <<>>
        THEN /\ ret' = Returned("list", f.args, next.yielded, f.dirty)
             /\ frame' = [frame EXCEPT ![c] = NoFrame]
             /\ pc' = [pc EXCEPT ![c] = "idle"]
        ELSE /\ frame' = [frame EXCEPT ![c] =
                   [f EXCEPT !.rows = next.rows, !.yielded = next.yielded]]
             /\ UNCHANGED <<ret, pc>>
  /\ UNCHANGED <<checkpoints, writes, tables, isSetup, lastPut, used>>

-----------------------------------------------------------------------------
(* putWrites *)

PendingWrite(channel, value) == <<channel, value>>

\* The rows of the statements putWrites builds: write i of the list (from 0)
\* goes to idx i.
putWritesRows(config, pendingWrites, taskId) ==
  [i \in 1..Len(pendingWrites) |->
     [thread_id |-> Val(Field(config, "thread_id")),
      checkpoint_ns |-> OrElse(Field(config, "checkpoint_ns"), NsRoot),
      checkpoint_id |-> Val(Field(config, "checkpoint_id")),
      task_id |-> taskId,
      idx |-> i - 1,
      channel |-> pendingWrites[i][1],
      type |-> Some(dumpsTyped(pendingWrites[i][2])[1]),
      value |-> Buffer(dumpsTyped(pendingWrites[i][2])[2])]]

\* The error putWrites throws before it issues its batch, "" when none.
putWritesError(config, pendingWrites) ==
  IF ~IsDefined(config.configurable)
  THEN "Empty configuration supplied."
  ELSE IF ~Truthy(Field(config, "thread_id"))
  THEN "Missing thread_id field in config.configurable."
  ELSE IF ~Truthy(Field(config, "checkpoint_id"))
  THEN "Missing checkpoint_id field in config.configurable."
  ELSE IF \E i \in 1..Len(pendingWrites) : ~Serializable(pendingWrites[i][2])
  THEN "serializer error"
  ELSE ""

batchUpToFailure(table, rows, succeeds) ==
  IF succeeds THEN ApplyWrites(table, rows)
  ELSE ApplyWrites(table, SubSeq(rows, 1, Len(rows) - 1))

\* this.db.batch(statements, "write"): the statements run in one
\* transaction; when the executor fails the batch none of them takes effect.
batch(table, rows, succeeds) ==
  IF succeeds THEN ApplyWrites(table, rows) ELSE table

putWrites(c, inputs, calls) ==
  /\ PastSetup(c)
  /\ used < calls
  /\ \E a \in inputs, succeeds \in BOOLEAN :
       LET error == putWritesError(a.config, a.writes)
       IN IF error # ""
          THEN /\ succeeds
               /\ ret' = Threw("putWrites", a, error)
               /\ UNCHANGED <<writes, frame>>
          ELSE /\ writes' = batch(writes,
                              putWritesRows(a.config, a.writes, a.taskId),
                              succeeds)
               /\ ret' = IF succeeds
                         THEN Returned("putWrites", a, Undefined, FALSE)
                         ELSE Threw("putWrites", a, "executor error")
               /\ frame' = IF succeeds THEN MarkDirty(frame) ELSE frame
  /\ pc' = [pc EXCEPT ![c] = "idle"]
  /\ used' = used + 1
  /\ UNCHANGED <<checkpoints, tables, isSetup, lastPut>>

-----------------------------------------------------------------------------
(* deleteThread *)

DeleteRootNamespaceWhereThread(table, threadId) ==
  {r \in table : r.thread_id # threadId \/ r.checkpoint_ns # NsRoot}

DeleteEveryThread(table, threadId) == {}

\* DELETE FROM <table> WHERE thread_id = ?
DeleteWhereThread(table, threadId) ==
  {r \in table : r.thread_id # threadId}

\* What deleteThread returns; `removed` (history): how many rows of
\* checkpoints and of writes its batch deleted.
Deleted(threadId, removed) ==
  [op |-> "deleteThread", args |-> threadId, status |-> "ok",
   out |-> Undefined, dirty |-> FALSE, removed |-> removed]

\* The batch of deleteThread: both DELETE statements or, when a table does
\* not exist, neither.  deleteThread does not call setup.
deleteThread(c, calls) ==
  /\ Taken
  /\ pc[c] = "idle"
  /\ used < calls
  /\ \E threadId \in {T1, T2} :
       IF {"checkpoints", "writes"} \subseteq tables
       THEN /\ checkpoints' = DeleteWhereThread(checkpoints, threadId)
            /\ writes' = DeleteWhereThread(writes, threadId)
            /\ lastPut' = {h \in lastPut : h.key[1] # threadId}
            /\ ret' = Deleted(threadId,
                         <<Cardinality(checkpoints \ checkpoints'),
                           Cardinality(writes \ writes')>>)
            /\ frame' = MarkDirty(frame)
       ELSE /\ ret' = Threw("deleteThread", threadId, "executor error")
            /\ UNCHANGED <<checkpoints, writes, lastPut, frame>>
  /\ used' = used + 1
  /\ UNCHANGED <<tables, isSetup, pc>>

-----------------------------------------------------------------------------
(* The inputs the calls are drawn from *)

\* "1" < "10" < "2" as TEXT
CheckpointIds == {<<1>>, <<1, 0>>, <<2>>}

CheckpointValue(id, v) ==
  [v |-> v, id |-> id,
   channel_values |-> [a |-> JStr("x")],
   channel_versions |-> [a |-> 1]]

MetaLoop1 == [source |-> JStr("loop"), step |-> JNum(1)]
MetaLoop0 == [source |-> JStr("loop"), step |-> JNum(0)]
MetaInput1 == [source |-> JStr("input"), step |-> JNum(1)]
MetaParentsAB ==
  [source |-> JStr("fork"), parents |-> JObj(<<<<"a", "1">>, <<"b", "2">>>>)]
MetaParentsBA ==
  [source |-> JStr("fork"), parents |-> JObj(<<<<"b", "2">>, <<"a", "1">>>>)]

\* A checkpoint with the given channel_versions.
CheckpointVersions(id, v, versions) ==
  [CheckpointValue(id, v) EXCEPT !.channel_versions = versions]

NoVersions == [k \in {} |-> 0]
Versions13 == [a |-> 1, b |-> 3]

PutArgs(config, checkpoint, metadata) ==
  [config |-> config, checkpoint |-> checkpoint, metadata |-> metadata]

\* Four kinds of put on each checkpoint id of partition (T1, ""): with and
\* without a parent, current and older version, with different metadata;
\* one row each in another namespace and in another thread, with the
\* greatest checkpoint id; and the calls put rejects.
PutInputs ==
  {PutArgs(Config(Some(T1), Undefined, Undefined),
           CheckpointValue(id, CurrentVersion), MetaInput1)
     : id \in CheckpointIds}
  \cup {PutArgs(Config(Some(T1), Some(NsRoot), Some(<<1>>)),
                CheckpointValue(id, CurrentVersion), MetaLoop1)
          : id \in CheckpointIds}
  \cup {PutArgs(Config(Some(T1), Some(NsRoot), Some(<<1>>)),
                CheckpointValue(id, CurrentVersion - 1), MetaLoop0)
          : id \in CheckpointIds}
  \cup {PutArgs(Config(Some(T1), Undefined, Undefined),
                CheckpointValue(id, CurrentVersion - 1), MetaParentsBA)
          : id \in CheckpointIds}
  \cup {PutArgs(Config(Some(T1), Some(NsRoot), Undefined),
                CheckpointValue(<<2>>, CurrentVersion), MetaParentsAB),
        PutArgs(Config(Some(T1), Some(NsChild), Undefined),
                CheckpointValue(<<2>>, CurrentVersion), MetaLoop1),
        PutArgs(Config(Some(T2), Undefined, Some(<<1>>)),
                CheckpointValue(<<2>>, CurrentVersion), MetaLoop1),
        PutArgs(EmptyConfig, CheckpointValue(<<1>>, CurrentVersion),
                MetaInput1),
        PutArgs(Config(Undefined, Some(NsRoot), Undefined),
                CheckpointValue(<<1>>, CurrentVersion), MetaInput1),
        PutArgs(Config(Some(T1), Some(NsRoot), Undefined),
                CheckpointValue(<<1>>, CurrentVersion), Binary("m"))}

GetTupleInputs ==
  {Config(Some(T1), ns, id)
     : ns \in {Undefined, Some(NsRoot), Some(NsChild)},
       id \in {Undefined} \cup {Some(i) : i \in CheckpointIds}}
  \cup {Config(Some(T2), Undefined, Undefined),
        Config(Some(T2), Some(NsRoot), Some(<<2>>)),
        Config(Some(T1), Some(NsRoot), Some(<<>>)),
        Config(Undefined, Undefined, Undefined),
        EmptyConfig}

Filters ==
  {<<>>,
   <<<<"source", Some(JStr("loop"))>>>>,
   <<<<"source", Some(JStr("loop"))>>, <<"step", Some(JNum(1))>>>>,
   <<<<"foo", Some(JStr("x"))>>>>,
   <<<<"source", Undefined>>>>,
   <<<<"source", Some(JStr("loop"))>>, <<"foo", Some(JStr("x"))>>>>,
   <<<<"parents", Some(JObj(<<<<"a", "1">>, <<"b", "2">>>>))>>>>}

Befores ==
  {Undefined,
   Some(Config(Some(T1), Some(NsRoot), Some(<<1, 0>>))),
   Some(Config(Some(T1), Some(NsRoot), Some(<<2>>)))}

Limits == {Undefined} \cup {Some(n) : n \in 0..MaxLimit}

\* On partition (T1, ""): every limit and before with no filter and with a
\* filter on source, and every filter with no limit and with limit 1; on
\* thread T1 with no namespace; and with an empty and with no thread id.
ListInputs ==
  {[config |-> Config(Some(T1), Some(NsRoot), Undefined),
    options |-> ListOptions(limit, before, filter)]
     : limit \in Limits, before \in Befores,
       filter \in {<<>>, <<<<"source", Some(JStr("loop"))>>>>}}
  \cup {[config |-> Config(Some(T1), Some(NsRoot), Undefined),
         options |-> ListOptions(limit, Undefined, filter)]
          : limit \in {Undefined, Some(1)}, filter \in Filters}
  \cup {[config |-> Config(Some(T1), Undefined, Undefined),
         options |-> ListOptions(limit, Undefined, <<>>)]
          : limit \in {Undefined, Some(1)}}
  \cup {[config |-> Config(Some(<<>>), Some(NsRoot), Undefined),
         options |-> ListOptions(Undefined, Undefined, <<>>)],
        [config |-> Config(Undefined, Some(NsRoot), Undefined),
         options |-> ListOptions(Undefined, Undefined, <<>>)]}

Tasks == {<<1>>, <<2>>}

\* On checkpoint <<1>> of partition (T1, ""), by either task: two writes,
\* one write that differs at idx 0, two writes to TASKS, a list with a value
\* the serializer rejects, and the empty list; one write each on another
\* checkpoint, in another namespace and in another thread; and a call with
\* no checkpoint id.
WriteLists ==
  {<<>>,
   <<PendingWrite("a", JStr("v1")), PendingWrite("b", JStr("v2"))>>,
   <<PendingWrite("b", JStr("v3"))>>,
   <<PendingWrite(TASKS, JStr("s1")), PendingWrite(TASKS, JStr("s2"))>>,
   <<PendingWrite("a", JStr("v1")), PendingWrite("b", Cyclic)>>}

PutWritesArgs(config, pendingWrites, taskId) ==
  [config |-> config, writes |-> pendingWrites, taskId |-> taskId]

PutWritesInputs ==
  {PutWritesArgs(Config(Some(T1), Undefined, Some(<<1>>)), w, t)
     : w \in WriteLists, t \in Tasks}
  \cup {PutWritesArgs(config, <<PendingWrite(TASKS, JStr("x"))>>, <<1>>)
          : config \in {Config(Some(T1), Some(NsRoot), Some(<<2>>)),
                        Config(Some(T1), Some(NsChild), Some(<<1>>)),
                        Config(Some(T2), Undefined, Some(<<1>>)),
                        Config(Some(T1), Some(NsRoot), Undefined),
                        Config(Undefined, Some(NsRoot), Some(<<1>>))}}

\* The inputs of the runs that are about pending writes: puts on partition
\* (T1, "") of a checkpoint without a parent, of a current and of three
\* older checkpoints under that parent (with one, with no and with two
\* channel versions), the calls put rejects, and the reads of that
\* partition.
FewPutInputs ==
  {PutArgs(Config(Some(T1), Undefined, Undefined),
           CheckpointValue(<<1>>, CurrentVersion), MetaInput1),
   PutArgs(Config(Some(T1), Some(NsRoot), Some(<<1>>)),
           CheckpointValue(<<2>>, CurrentVersion), MetaLoop1),
   PutArgs(Config(Some(T1), Some(NsRoot), Some(<<1>>)),
           CheckpointValue(<<2>>, CurrentVersion - 1), MetaLoop0),
   PutArgs(Config(Some(T1), Some(NsRoot), Some(<<1>>)),
           CheckpointVersions(<<2>>, CurrentVersion - 1, NoVersions),
           MetaLoop0),
   PutArgs(Config(Some(T1), Some(NsRoot), Some(<<1>>)),
           CheckpointVersions(<<2>>, CurrentVersion - 1, Versions13),
           MetaLoop0),
   PutArgs(EmptyConfig, CheckpointValue(<<1>>, CurrentVersion), MetaInput1),
   PutArgs(Config(Undefined, Some(NsRoot), Undefined),
           CheckpointValue(<<1>>, CurrentVersion), MetaInput1),
   PutArgs(Config(Some(T1), Some(NsRoot), Undefined),
           CheckpointValue(<<1>>, CurrentVersion), Binary("m"))}

FewGetTupleInputs ==
  {Config(Some(T1), ns, id)
     : ns \in {Undefined, Some(NsRoot)},
       id \in {Undefined, Some(<<1>>), Some(<<2>>)}}

FewListInputs ==
  {[config |-> Config(Some(T1), Some(NsRoot), Undefined),
    options |-> ListOptions(limit, Undefined, <<>>)]
     : limit \in {Undefined, Some(1)}}

\* The inputs of putWrites in the runs that are about checkpoints.
FewPutWritesInputs ==
  {PutWritesArgs(Config(Some(T1), Undefined, Some(<<1>>)),
                 <<PendingWrite("a", JStr("v1")),
                   PendingWrite("b", JStr("v2"))>>, <<1>>)}

-----------------------------------------------------------------------------
(* The specification *)

Init ==
  /\ checkpoints = {}
  /\ writes = {}
  /\ tables = {}
  /\ isSetup = FALSE
  /\ pc = [c \in Slots |-> "idle"]
  /\ frame = [c \in Slots |-> NoFrame]
  /\ ret = NoCall
  /\ lastPut = {}
  /\ used = 0

\* The caller takes what the last step returned or threw.
Resume ==
  /\ ~Taken
  /\ ret' = NoCall
  /\ UNCHANGED <<checkpoints, writes, tables, isSetup, pc, frame, lastPut,
                 used>>

\* Checkpoint histories: every put, getTuple and list input, few writes.
Next ==
  \/ Resume
  \/ \E c \in Slots :
       \/ SetupBegin(c)
       \/ SetupJournalMode(c)
       \/ SetupCreateCheckpoints(c)
       \/ SetupCreateWrites(c)
       \/ SetupDone(c)
       \/ put(c, PutInputs, MaxCalls)
       \/ getTuple(c, GetTupleInputs)
       \/ getTupleMigrate(c)
       \/ list(c, ListInputs)
       \/ listMigrate(c)
       \/ putWrites(c, FewPutWritesInputs, MaxCalls)
       \/ deleteThread(c, MaxCalls)

Spec == Init /\ [][Next]_vars

\* Pending writes: every putWrites input, few checkpoints.
NextWrites ==
  \/ Resume
  \/ \E c \in Slots :
       \/ SetupBegin(c)
       \/ SetupJournalMode(c)
       \/ SetupCreateCheckpoints(c)
       \/ SetupCreateWrites(c)
       \/ SetupDone(c)
       \/ put(c, FewPutInputs, MaxWritesCalls)
       \/ getTuple(c, FewGetTupleInputs)
       \/ getTupleMigrate(c)
       \/ list(c, FewListInputs)
       \/ listMigrate(c)
       \/ putWrites(c, PutWritesInputs, MaxWritesCalls)
       \/ deleteThread(c, MaxWritesCalls)

SpecWrites == Init /\ [][NextWrites]_vars

-----------------------------------------------------------------------------
(* put and getTuple: round trip and upsert *)

\* getTuple has answered, from one state of the store, a call with the
\* config that the last put of h's key returned.
RoundTripOf(h) ==
  /\ ret.op = "getTuple"
  /\ ret.status = "ok"
  /\ ~ret.dirty
  /\ ret.args = Config(Some(h.key[1]), Some(h.key[2]), Some(h.key[3]))

\* A checkpoint getTuple hands to migratePendingSends: written with a
\* version below the current one by a put whose config named a checkpoint_id.
Legacy(h) == h.checkpoint.v < CurrentVersion /\ IsDefined(h.parent)

C2_PutUpsert ==
  /\ \A r, q \in checkpoints : CheckpointKey(r) = CheckpointKey(q) => r = q
  /\ \A h \in lastPut :
       LET rows == {r \in checkpoints : CheckpointKey(r) = h.key}
       IN /\ Cardinality(rows) = 1
          /\ \A r \in rows : /\ decodeCheckpoint(r) = h.checkpoint
                              /\ decodeMetadata(r) = h.metadata
                              /\ r.parent_checkpoint_id = h.parent

\* A put has replaced the row that an earlier put with other content left.
C2_Witness ==
  \E h \in lastPut :
    /\ h.over = "other"
    /\ ret.op = "put" /\ ret.status = "ok"
    /\ ret.args.checkpoint = h.checkpoint /\ ret.args.metadata = h.metadata

-----------------------------------------------------------------------------
(* getTuple: which row it returns *)

\* The rows of the partition a config names, checkpoint_ns defaulting to "".
PartitionOf(config) ==
  {r \in checkpoints :
     /\ Some(r.thread_id) = Field(config, "thread_id")
     /\ r.checkpoint_ns
          = (IF IsDefined(Field(config, "checkpoint_ns"))
             THEN Val(Field(config, "checkpoint_ns")) ELSE <<>>)}

\* The tuple is the one of checkpoints row r.
TupleOfRow(tuple, r) ==
  /\ Field(tuple.config, "thread_id") = Some(r.thread_id)
  /\ Field(tuple.config, "checkpoint_id") = Some(r.checkpoint_id)
  /\ tuple.checkpoint.id = decodeCheckpoint(r).id
  /\ tuple.checkpoint.v = decodeCheckpoint(r).v
  /\ tuple.metadata = decodeMetadata(r)

\* getTuple has answered a call that named a thread, from one state of the
\* store.
GetTupleAnswered ==
  /\ ret.op = "getTuple"
  /\ ~ret.dirty
  /\ IsDefined(Field(ret.args, "thread_id"))

\* C3: getTuple with a (non-empty) checkpoint_id returns the row of the
\* partition with that id; without one it returns the row of the partition,
\* and of no other namespace or thread, with the lexically greatest
\* checkpoint_id; when no row matches it returns undefined and throws no
\* error.
C3_GetTupleSelection ==
  GetTupleAnswered =>
    LET id == Field(ret.args, "checkpoint_id")
        partition == PartitionOf(ret.args)
        selected ==
          IF IsDefined(id) /\ Val(id) # <<>>
          THEN {r \in partition : r.checkpoint_id = Val(id)}
          ELSE {r \in partition :
                  \A q \in partition :
                    \/ q.checkpoint_id = r.checkpoint_id
                    \/ TextLess(q.checkpoint_id, r.checkpoint_id)}
    IN /\ ret.status = "ok"
       /\ IsDefined(ret.out) <=> selected # {}
       /\ IsDefined(ret.out) => \E r \in selected : TupleOfRow(Val(ret.out), r)

\* getTuple without a checkpoint_id has returned the latest of several rows
\* of the partition while another namespace or thread holds a greater id.
C3_Witness ==
  /\ GetTupleAnswered
  /\ ~IsDefined(Field(ret.args, "checkpoint_id"))
  /\ IsDefined(ret.out)
  /\ Cardinality(PartitionOf(ret.args)) >= 2
  /\ \E q \in checkpoints \ PartitionOf(ret.args) :
       TextLess(Val(Field(Val(ret.out).config, "checkpoint_id")),
                q.checkpoint_id)

-----------------------------------------------------------------------------
(* list: order, before, limit, filter *)

\* list has returned, from one state of the store, to a call whose config
\* names a partition: a thread and a namespace.
ListAnswered ==
  /\ ret.op = "list"
  /\ ret.status = "ok"
  /\ ~ret.dirty
  /\ IsDefined(Field(ret.args.config, "thread_id"))
  /\ Val(Field(ret.args.config, "thread_id")) # <<>>
  /\ IsDefined(Field(ret.args.config, "checkpoint_ns"))

\* The checkpoint ids of the tuples yielded, in the order yielded.
YieldedIds(out) ==
  [i \in 1..Len(out) |-> Val(Field(out[i].config, "checkpoint_id"))]

\* The id that options.before carries, if any.
BeforeId(options) ==
  IF IsDefined(options.before)
  THEN Field(Val(options.before), "checkpoint_id")
  ELSE Undefined

\* C4: list yields checkpoints of the partition in strictly descending
\* checkpoint_id order, each at most once; with options.before carrying id
\* b it yields only checkpoints with id strictly less than b; and with no
\* limit and no filter it yields every such checkpoint of the partition.
C4_ListOrderBefore ==
  ListAnswered =>
    LET ids == YieldedIds(ret.out)
        b == BeforeId(ret.args.options)
        partition == PartitionOf(ret.args.config)
    IN /\ \A i, j \in 1..Len(ids) : i < j => TextLess(ids[j], ids[i])
       /\ \A i \in 1..Len(ids) :
            /\ \E r \in partition : r.checkpoint_id = ids[i]
            /\ Field(ret.out[i].config, "checkpoint_ns")
                 = Field(ret.args.config, "checkpoint_ns")
            /\ IsDefined(b) => TextLess(ids[i], Val(b))
       /\ (~IsDefined(ret.args.options.limit) /\ ret.args.options.filter = <<>>)
            => {ids[i] : i \in 1..Len(ids)}
                 = {r.checkpoint_id : r \in
                      {q \in partition :
                         IsDefined(b) => TextLess(q.checkpoint_id, Val(b))}}

\* list with a before id that a checkpoint of the partition carries has
\* yielded the two checkpoints below it.
C4_Witness ==
  /\ ListAnswered
  /\ IsDefined(BeforeId(ret.args.options))
  /\ \E r \in PartitionOf(ret.args.config) :
       Some(r.checkpoint_id) = BeforeId(ret.args.options)
  /\ Len(ret.out) = 2

\* C5 as stated: with limit n list yields at most n tuples, the n matching
\* checkpoints with the greatest ids, or all of them when fewer match.
C5_ListLimit ==
  (ListAnswered /\ IsDefined(ret.args.options.limit)) =>
    LET n == Val(ret.args.options.limit)
        ids == YieldedIds(ret.out)
        partition == PartitionOf(ret.args.config)
    IN /\ Len(ret.out) <= n
       /\ \A i \in 1..Len(ids) :
            \* every checkpoint above a yielded one is yielded before it
            \A r \in partition :
              (/\ TextLess(ids[i], r.checkpoint_id)
               /\ \A k \in 1..Len(whereClause(ret.args.config,
                                               ret.args.options)) :
                    Satisfies(r,
                      whereClause(ret.args.config, ret.args.options)[k],
                      listArgs(ret.args.config, ret.args.options)[k]))
              => \E j \in 1..(i - 1) : ids[j] = r.checkpoint_id

\* JSON values are equal: objects hold the same members, in any order.
JSONEqual(a, b) ==
  IF a.t = "obj" /\ b.t = "obj"
  THEN {a.kv[i] : i \in 1..Len(a.kv)} = {b.kv[i] : i \in 1..Len(b.kv)}
  ELSE a = b

\* The stored metadata of row r has field `key` equal to `value`.
MetadataHas(r, key, value) ==
  /\ key \in DOMAIN decodeMetadata(r)
  /\ JSONEqual(decodeMetadata(r)[key], value)

\* Every entry of the filter has a recognized key and a defined value.
Recognized(filter) ==
  \A i \in 1..Len(filter) :
    filter[i][1] \in {"source", "step", "parents"} /\ IsDefined(filter[i][2])

\* C6 as stated: with a filter of recognized keys with defined values, and
\* no limit and no before, list yields exactly the checkpoints of the
\* partition whose stored metadata has every filter field equal to the
\* filter value.
C6_ListFilter ==
  (/\ ListAnswered
   /\ ret.args.options.filter # <<>>
   /\ Recognized(ret.args.options.filter)
   /\ ~IsDefined(ret.args.options.limit)
   /\ ~IsDefined(ret.args.options.before)) =>
    LET filter == ret.args.options.filter
        ids == YieldedIds(ret.out)
    IN {ids[i] : i \in 1..Len(ids)}
         = {r.checkpoint_id : r \in
              {q \in PartitionOf(ret.args.config) :
                 \A i \in 1..Len(filter) :
                   MetadataHas(q, filter[i][1], Val(filter[i][2]))}}

\* The filter without the entries the claim calls ignored: those with a key
\* outside {source, step, parents} and those with an undefined value.
Stripped(filter) ==
  LET Kept(entry) ==
        entry[1] \in {"source", "step", "parents"} /\ IsDefined(entry[2])
  IN SelectSeq(filter, Kept)

\* The tuple list yields for a row in this state of the store.
TupleNow(row) ==
  listResult(row,
             IF needsMigration(decodeCheckpoint(row), row)
             THEN migratePendingSends(decodeCheckpoint(row),
                    migrationRows(row.thread_id,
                                  Val(row.parent_checkpoint_id)))
             ELSE decodeCheckpoint(row),
             decodePendingWrites(PendingWritesColumn(row)))

\* What a list call may return or throw in this state of the store.
ListOutcomes(config, options) ==
  IF Len(whereClause(config, options)) # Len(listArgs(config, options))
  THEN {[status |-> "error", out |-> "executor error"]}
  ELSE {[status |-> "ok",
         out |-> [i \in 1..Len(rows) |-> TupleNow(rows[i])]]
          : rows \in listRows(config, options)}

\* list has returned or thrown, from one state of the store.
ListEnded == ret.op = "list" /\ ~ret.dirty

\* C7: a list call whose filter has entries with an unrecognized key or an
\* undefined value ends as the same call without those entries does in the
\* same state of the store: the same sequence of tuples, and an error only
\* if that call throws one.
C7_IgnoredFilterKeys ==
  ListEnded =>
    [status |-> ret.status, out |-> ret.out]
      \in ListOutcomes(ret.args.config,
                       [ret.args.options EXCEPT
                          !.filter = Stripped(ret.args.options.filter)])

\* list has been called with a filter on source and on an unrecognized key,
\* and has yielded some checkpoints of the partition and left out others.
C7_Witness ==
  /\ ListEnded
  /\ ret.status = "ok"
  /\ Len(Stripped(ret.args.options.filter)) = 1
  /\ Len(ret.args.options.filter) = 2
  /\ Len(ret.out) >= 1
  /\ Len(ret.out) < Cardinality(PartitionOf(ret.args.config))

-----------------------------------------------------------------------------
(* Pending writes *)

\* The stored writes of the checkpoint a tuple's config names.
OwnWrites(tuple) ==
  {w \in writes :
     /\ Some(w.thread_id) = Field(tuple.config, "thread_id")
     /\ w.checkpoint_ns
          = (IF IsDefined(Field(tuple.config, "checkpoint_ns"))
             THEN Val(Field(tuple.config, "checkpoint_ns")) ELSE <<>>)
     /\ Some(w.checkpoint_id) = Field(tuple.config, "checkpoint_id")}

\* The place of write w among `own` by task id, then by idx.
Rank(w, own) ==
  1 + Cardinality({q \in own :
                     \/ TextLess(q.task_id, w.task_id)
                     \/ q.task_id = w.task_id /\ q.idx < w.idx})

\* The tuple's pendingWrites are the stored writes of its checkpoint, one
\* entry <<task id, channel, value>> each, by task id and then by idx.
HoldsOwnWrites(tuple) ==
  /\ Len(tuple.pendingWrites) = Cardinality(OwnWrites(tuple))
  /\ \A w \in OwnWrites(tuple) :
       LET entry == tuple.pendingWrites[Rank(w, OwnWrites(tuple))]
       IN /\ entry[1] = w.task_id
          /\ entry[2] = w.channel
          /\ dumpsTyped(entry[3]) = <<Val(w.type), w.value.doc>>

\* C8: the pendingWrites of a tuple that getTuple returns or list yields
\* hold one entry (task id, channel, value) for every stored write of that
\* thread, namespace and checkpoint and for no other write, ordered by task
\* id and then by idx.
C8_PendingWrites ==
  /\ (GetTupleAnswered /\ ret.status = "ok" /\ IsDefined(ret.out))
       => HoldsOwnWrites(Val(ret.out))
  /\ ListAnswered
       => \A i \in 1..Len(ret.out) : HoldsOwnWrites(ret.out[i])

\* getTuple has returned the writes of two tasks, two of them of one task,
\* while the store holds a write of another checkpoint, namespace or thread.
C8_Witness ==
  /\ GetTupleAnswered
  /\ ret.status = "ok"
  /\ IsDefined(ret.out)
  /\ \E w, q, x \in OwnWrites(Val(ret.out)) :
       w.task_id # q.task_id /\ x.task_id = q.task_id /\ x.idx # q.idx
  /\ writes \ OwnWrites(Val(ret.out)) # {}

\* The key of write i (from 1) of a putWrites call with arguments a.
SlotKey(a, i) ==
  <<Val(Field(a.config, "thread_id")),
    IF IsDefined(Field(a.config, "checkpoint_ns"))
    THEN Val(Field(a.config, "checkpoint_ns")) ELSE <<>>,
    Val(Field(a.config, "checkpoint_id")), a.taskId, i - 1>>

SlotKeys(a) == {SlotKey(a, i) : i \in 1..Len(a.writes)}

\* Table `table` holds write i of call a, and nothing else, at its slot.
SlotHolds(table, a, i) ==
  /\ Cardinality({w \in table : WriteKey(w) = SlotKey(a, i)}) = 1
  /\ \A w \in table :
       WriteKey(w) = SlotKey(a, i) =>
         /\ w.channel = a.writes[i][1]
         /\ loadsTyped(Val(w.type), w.value.doc) = a.writes[i][2]

\* This step is a putWrites call that returns.
PutWritesReturns ==
  ret = NoCall /\ ret'.op = "putWrites" /\ ret'.status = "ok"

\* This step is a putWrites call that throws.
PutWritesThrows ==
  ret = NoCall /\ ret'.op = "putWrites" /\ ret'.status = "error"

\* C9: a putWrites call that returns leaves write i of its list at key
\* (thread_id, checkpoint_ns, checkpoint_id, task_id, idx = i), in place of
\* any row that was there, and leaves every other row as it was; a call
\* whose writes are all stored already, as after an identical call,
\* leaves the table as it is.
C9_PutWritesSlots ==
  [][PutWritesReturns =>
       LET a == ret'.args
       IN /\ \A i \in 1..Len(a.writes) : SlotHolds(writes', a, i)
          /\ {w \in writes' : WriteKey(w) \notin SlotKeys(a)}
               = {w \in writes : WriteKey(w) \notin SlotKeys(a)}
          /\ (\A i \in 1..Len(a.writes) : SlotHolds(writes, a, i))
               => writes' = writes]_vars

\* A putWrites call of one write has returned and the slot after it holds a
\* row: the call has replaced the first row of an earlier call of two
\* writes by the same task and left the second.
C9_Witness ==
  /\ ret.op = "putWrites"
  /\ ret.status = "ok"
  /\ Len(ret.args.writes) = 1
  /\ SlotHolds(writes, ret.args, 1)
  /\ \E w \in writes :
       WriteKey(w) = [SlotKey(ret.args, 1) EXCEPT ![5] = 1]

\* C10: the writes table changes only by a putWrites call that returns and
\* has then stored every write of its list, or by a deleteThread; a
\* putWrites call that throws, for a value it cannot serialize or because
\* the batch failed, leaves the table as it was.
C10_PutWritesAtomic ==
  [][/\ writes' # writes =>
          \/ /\ PutWritesReturns
             /\ \A i \in 1..Len(ret'.args.writes) :
                  SlotHolds(writes', ret'.args, i)
          \/ ret'.op = "deleteThread" /\ ret'.status = "ok"
     /\ PutWritesThrows => writes' = writes]_vars

\* A putWrites call has thrown for a value it cannot serialize, after
\* another call stored writes for the same checkpoint and task.
C10_Witness ==
  /\ ret.op = "putWrites"
  /\ ret.status = "error"
  /\ ret.out = "serializer error"
  /\ \E w \in writes :
       /\ w.thread_id = Val(Field(ret.args.config, "thread_id"))
       /\ Some(w.checkpoint_id) = Field(ret.args.config, "checkpoint_id")
       /\ w.task_id = ret.args.taskId

-----------------------------------------------------------------------------
(* deleteThread *)

\* This step is a deleteThread call that returns.
DeleteThreadReturns ==
  ret = NoCall /\ ret'.op = "deleteThread" /\ ret'.status = "ok"

\* The threads with a row in the table.
ThreadsOf(table) == {r.thread_id : r \in table}

\* C11: a deleteThread(T) that returns leaves no checkpoints row and no
\* writes row of thread T, in any namespace, and every row of the other
\* threads as it was; the rows of a thread leave the two tables in the same
\* step, and only by a deleteThread that returns; and when thread T has no
\* row, list for T yields nothing and getTuple for T returns undefined.
C11_DeleteThread ==
  [][/\ DeleteThreadReturns =>
          /\ ret'.args \notin ThreadsOf(checkpoints') \cup ThreadsOf(writes')
          /\ checkpoints' = {r \in checkpoints : r.thread_id # ret'.args}
          /\ writes' = {w \in writes : w.thread_id # ret'.args}
     /\ \A t \in (ThreadsOf(checkpoints) \ ThreadsOf(checkpoints'))
                 \cup (ThreadsOf(writes) \ ThreadsOf(writes')) :
          /\ DeleteThreadReturns
          /\ t \notin ThreadsOf(checkpoints') \cup ThreadsOf(writes')
     /\ (/\ ret = NoCall
         /\ ret'.op \in {"list", "getTuple"}
         /\ ~ret'.dirty
         /\ Field(IF ret'.op = "list" THEN ret'.args.config ELSE ret'.args,
                  "thread_id") \cap ThreadsOf(checkpoints') = {}) =>
          /\ ret'.op = "list" /\ ret'.status = "ok" => ret'.out = <<>>
          /\ ret'.op = "getTuple" /\ ret'.status = "ok" => ret'.out = Undefined
    ]_vars

\* deleteThread has returned after deleting checkpoints and writes of its
\* thread, and rows of another thread are still stored.
C11_Witness ==
  /\ ret.op = "deleteThread"
  /\ ret.status = "ok"
  /\ ret.removed[1] >= 1
  /\ ret.removed[2] >= 1
  /\ ThreadsOf(checkpoints) \cup ThreadsOf(writes) # {}

-----------------------------------------------------------------------------
(* Reading a legacy checkpoint: migratePendingSends *)

\* The checkpoints rows a tuple was made from: the row its config names.
RowsOf(tuple) ==
  {r \in PartitionOf(tuple.config) :
     Some(r.checkpoint_id) = Field(tuple.config, "checkpoint_id")}

\* The row is a legacy one: a version below 4 and a parent that is not null.
LegacyRow(r) ==
  decodeCheckpoint(r).v < CurrentVersion /\ r.parent_checkpoint_id # {}

\* The writes on the tasks channel stored under the parent of row r, in the
\* partition of r.
ParentSends(r) ==
  {w \in writes : /\ w.thread_id = r.thread_id
                  /\ w.checkpoint_ns = r.checkpoint_ns
                  /\ Some(w.checkpoint_id) = r.parent_checkpoint_id
                  /\ w.channel = TASKS}

\* The writes on the tasks channel stored under the same thread and
\* checkpoint id as the parent of row r, in whatever namespace.
ThreadSends(r) ==
  {w \in writes : /\ w.thread_id = r.thread_id
                  /\ Some(w.checkpoint_id) = r.parent_checkpoint_id
                  /\ w.channel = TASKS}

\* The ways to list `rows` by idx, least first.
RECURSIVE ByIdx(_)
ByIdx(rows) ==
  IF rows = {} THEN {<<>>}
  ELSE UNION {{<<r>> \o rest : rest \in ByIdx(rows \ {r})}
              : r \in {q \in rows : \A x \in rows : q.idx <= x.idx}}

\* The values of a sequence of write rows.
ValuesOf(rows) ==
  [i \in 1..Len(rows) |-> loadsTyped(Val(rows[i].type), rows[i].value.doc)]

\* getTuple has returned, from one state of the store, the tuple of a
\* legacy row.
LegacyReturned ==
  /\ GetTupleAnswered
  /\ ret.status = "ok"
  /\ IsDefined(ret.out)
  /\ \A r \in RowsOf(Val(ret.out)) : LegacyRow(r)

\* C12 as stated, for stores where the parent's id carries tasks writes in
\* no other namespace: getTuple of a legacy row whose parent checkpoint has
\* writes on the tasks channel returns channel_values[TASKS] equal to the
\* values of those writes ordered by idx, and channel_versions[TASKS]
\* defined.
C12_MigrationReconstructs ==
  LegacyReturned =>
    \A r \in RowsOf(Val(ret.out)) :
      (ParentSends(r) # {} /\ ThreadSends(r) = ParentSends(r)) =>
        /\ TASKS \in DOMAIN Val(ret.out).checkpoint.channel_values
        /\ TASKS \in DOMAIN Val(ret.out).checkpoint.channel_versions
        /\ Val(ret.out).checkpoint.channel_values[TASKS]
             \in {ValuesOf(order) : order \in ByIdx(ParentSends(r))}

-----------------------------------------------------------------------------
(* setup before every operation *)

\* Both tables of the schema exist.
SchemaExists == {"checkpoints", "writes"} \subseteq tables

\* C13 as stated: every public operation (put, putWrites, getTuple, list,
\* deleteThread) has ensured that the schema exists before it does its work:
\* whatever a call returns or throws, it does so with both tables created.
C13_SetupFirst ==
  ret # NoCall => SchemaExists

-----------------------------------------------------------------------------
(* Errors of put and putWrites *)

\* The errors thrown for a config that lacks a required field.
InvalidConfig ==
  {"Empty configuration supplied.",
   "Missing \"thread_id\" field in passed \"config.configurable\".",
   "Missing thread_id field in config.configurable.",
   "Missing checkpoint_id field in config.configurable."}

\* The error thrown when checkpoint and metadata serialize to different
\* types.
SerializationMismatch ==
  "Failed to serialized checkpoint and metadata to the same type."

\* This step is a call of `op` that returns or throws.
Ends(op) == ret = NoCall /\ ret'.op = op

\* C14: a put whose config has no thread id throws an InvalidConfig error,
\* a put whose checkpoint and metadata serialize to different type tags
\* throws SerializationMismatch, a putWrites whose config has no thread id
\* or no checkpoint id throws an InvalidConfig error; and a put or putWrites
\* that throws leaves every row of checkpoints and of writes as it was.
C14_WriteErrors ==
  [][/\ Ends("put") =>
          LET a == ret'.args
          IN /\ ~Truthy(Field(a.config, "thread_id")) =>
                  ret'.status = "error" /\ ret'.out \in InvalidConfig
             /\ ( /\ Truthy(Field(a.config, "thread_id"))
                  /\ Serializable(a.checkpoint)
                  /\ Serializable(a.metadata)
                  /\ TagOf(a.checkpoint) # TagOf(a.metadata) ) =>
                  ret'.status = "error" /\ ret'.out = SerializationMismatch
     /\ Ends("putWrites") =>
          LET a == ret'.args
          IN ( \/ ~Truthy(Field(a.config, "thread_id"))
               \/ ~Truthy(Field(a.config, "checkpoint_id")) ) =>
               ret'.status = "error" /\ ret'.out \in InvalidConfig
     /\ ((Ends("put") \/ Ends("putWrites")) /\ ret'.status = "error") =>
          checkpoints' = checkpoints /\ writes' = writes]_vars

\* A put has thrown SerializationMismatch on a store that holds a
\* checkpoint and writes.
C14_Witness ==
  /\ ret.op = "put"
  /\ ret.status = "error"
  /\ ret.out = SerializationMismatch
  /\ checkpoints # {}
  /\ writes # {}

-----------------------------------------------------------------------------
(* getTuple without a thread id *)

\* C15 as stated: a getTuple call whose config carries no thread id ends in
\* the error for missing identifying fields, whatever the store holds; it
\* does not return undefined or a tuple.
C15_GetTupleInvalidConfig ==
  (ret.op = "getTuple" /\ ~IsDefined(Field(ret.args, "thread_id"))) =>
    ret.status = "error" /\ ret.out = MissingIds

-----------------------------------------------------------------------------
(* Migration: no sends, other namespaces *)

\* The checkpoint last put at the key of row r, as it was put.
PutAt(r) == {h.checkpoint : h \in {g \in lastPut : g.key = CheckpointKey(r)}}

\* C16 as stated: getTuple of a legacy row whose parent checkpoint has no
\* writes on the tasks channel, under any namespace, returns the
\* channel_values and channel_versions that were put, with no entry for the
\* tasks channel added to either.
C16_MigrationNoOp ==
  LegacyReturned =>
    \A r \in RowsOf(Val(ret.out)) :
      ThreadSends(r) = {} =>
        \A given \in PutAt(r) :
          /\ Val(ret.out).checkpoint.channel_values = given.channel_values
          /\ Val(ret.out).checkpoint.channel_versions = given.channel_versions

\* C17 as stated: the values getTuple returns on the tasks channel of a
\* legacy row are those of the tasks writes stored under the row's thread,
\* the row's namespace and the parent's checkpoint id, and of no write of
\* another namespace or thread.
C17_MigrationScope ==
  LegacyReturned =>
    \A r \in RowsOf(Val(ret.out)) :
      TASKS \in DOMAIN Val(ret.out).checkpoint.channel_values =>
        Val(ret.out).checkpoint.channel_values[TASKS]
          = ValuesOf(IndexScan(ParentSends(r)))

-----------------------------------------------------------------------------
(* Migration: the version of the tasks channel *)

\* The channel versions stored in row r.
StoredVersions(r) == decodeCheckpoint(r).channel_versions

\* C18: the checkpoint getTuple returns for a legacy row has, on the tasks
\* channel, the greatest of the channel versions stored in the row when
\* there is one, and otherwise the first version of the version generator;
\* every other channel keeps its stored version, so that in the first case
\* no channel version is above that of the tasks channel.
C18_MigrationVersion ==
  LegacyReturned =>
    \A r \in RowsOf(Val(ret.out)) :
      LET stored == StoredVersions(r)
          got == Val(ret.out).checkpoint.channel_versions
      IN /\ DOMAIN got = DOMAIN stored \cup {TASKS}
         /\ \A k \in DOMAIN stored \ {TASKS} : got[k] = stored[k]
         /\ IF DOMAIN stored # {}
            THEN /\ \E k \in DOMAIN stored : got[TASKS] = stored[k]
                 /\ \A k \in DOMAIN stored : stored[k] <= got[TASKS]
                 /\ \A k \in DOMAIN got : got[k] <= got[TASKS]
            ELSE got[TASKS] = InitialVersion

\* getTuple has returned a legacy row stored with two channel versions, the
\* greater of them now on the tasks channel.
C18_Witness ==
  /\ LegacyReturned
  /\ \E r \in RowsOf(Val(ret.out)) :
       /\ StoredVersions(r) = Versions13
       /\ Val(ret.out).checkpoint.channel_versions[TASKS] = 3

-----------------------------------------------------------------------------
(* setup runs once *)

\* Slot c issues a CREATE TABLE statement in this step.
CreatesTable(c) ==
  /\ pc[c] \in {"createCheckpoints", "createWrites"}
  /\ pc'[c] # pc[c]

\* C19 as stated: once isSetup is true no call of the instance issues a
\* table-creation statement again, whatever the interleaving of the calls;
\* and isSetup is true only when both tables have been created.
C19_SetupOnce ==
  [][/\ \A c \in Slots : CreatesTable(c) => ~isSetup
     /\ isSetup' => SchemaExists']_vars

-----------------------------------------------------------------------------
(* put and the writes table *)

\* The writes stored under the key of a put or putWrites call with
\* arguments a and checkpoint id `id`.
WritesUnder(a, id) ==
  {w \in writes :
     /\ Some(w.thread_id) = Field(a.config, "thread_id")
     /\ w.checkpoint_ns = OrElse(Field(a.config, "checkpoint_ns"), NsRoot)
     /\ w.checkpoint_id = id}

\* C20: a put, whether it returns or throws, leaves every row of writes as
\* it was; a putWrites that returns has stored its rows also when
\* checkpoints has no row with its checkpoint id; and the tuple getTuple
\* returns holds as pendingWrites every write stored under its key,
\* whether stored before or after its checkpoint.
C20_PutKeepsWrites ==
  [][/\ Ends("put") => writes' = writes
     /\ PutWritesReturns =>
          \A i \in 1..Len(ret'.args.writes) :
            SlotHolds(writes', ret'.args, i)
     /\ ( /\ Ends("getTuple")
          /\ ~ret'.dirty
          /\ ret'.status = "ok"
          /\ IsDefined(ret'.out) ) =>
          /\ writes' = writes
          /\ HoldsOwnWrites(Val(ret'.out))]_vars

\* A put has created the row of a checkpoint under whose key writes were
\* stored already.
C20_Witness ==
  /\ ret.op = "put"
  /\ ret.status = "ok"
  /\ \E h \in lastPut :
       /\ h.over = "none"
       /\ h.checkpoint = ret.args.checkpoint
       /\ h.key[3] = ret.args.checkpoint.id
  /\ WritesUnder(ret.args, ret.args.checkpoint.id) # {}

-----------------------------------------------------------------------------
(* Parent lineage *)

\* The key a tuple's config names, checkpoint_ns defaulting to "".
KeyOf(tuple) ==
  <<Val(Field(tuple.config, "thread_id")),
    OrElse(Field(tuple.config, "checkpoint_ns"), NsRoot),
    Val(Field(tuple.config, "checkpoint_id"))>>

\* The parentConfig of the checkpoint last put as h: the thread and
\* namespace of its key with the checkpoint_id of the config given to put,
\* and none when that config had no checkpoint_id.
ParentConfigOf(h) ==
  IF Truthy(h.parent)
  THEN Some(Config(Some(h.key[1]), Some(h.key[2]), h.parent))
  ELSE Undefined

\* The tuple has the parentConfig of the put that wrote its checkpoint.
NamesParent(tuple) ==
  \A h \in lastPut :
    h.key = KeyOf(tuple) => tuple.parentConfig = ParentConfigOf(h)

\* C21: a put that returns gives back the thread_id and namespace of its
\* config with the id of the checkpoint written as checkpoint_id, and the
\* row it wrote has the checkpoint_id of that config as parent (null when
\* there is none); the tuple getTuple returns and the tuples list yields
\* have as parentConfig the thread, the namespace and that parent id, and
\* no parentConfig when the checkpoint was put with no checkpoint_id.
C21_ParentLineage ==
  /\ (ret.op = "put" /\ ret.status = "ok") =>
       LET a == ret.args
           ns == OrElse(Field(a.config, "checkpoint_ns"), NsRoot)
       IN /\ Field(ret.out, "thread_id") = Field(a.config, "thread_id")
          /\ Field(ret.out, "checkpoint_ns") = Some(ns)
          /\ Field(ret.out, "checkpoint_id") = Some(a.checkpoint.id)
          /\ \E r \in checkpoints :
               /\ CheckpointKey(r)
                    = <<Val(Field(a.config, "thread_id")), ns,
                        a.checkpoint.id>>
               /\ r.parent_checkpoint_id = Field(a.config, "checkpoint_id")
  /\ (GetTupleAnswered /\ ret.status = "ok" /\ IsDefined(ret.out)) =>
       NamesParent(Val(ret.out))
  /\ ListAnswered => \A i \in 1..Len(ret.out) : NamesParent(ret.out[i])

\* getTuple has returned the second checkpoint of a chain: it was put with
\* the config that the put of the first, a checkpoint without parent,
\* returned, and its parentConfig names the first.
C21_Witness ==
  /\ GetTupleAnswered
  /\ ret.status = "ok"
  /\ IsDefined(ret.out)
  /\ \E h, g \in lastPut :
       /\ h.key = KeyOf(Val(ret.out))
       /\ IsDefined(h.parent)
       /\ g.key = <<h.key[1], h.key[2], Val(h.parent)>>
       /\ ~IsDefined(g.parent)
       /\ g.key # h.key
       /\ Val(ret.out).parentConfig
            = Some(putResult(Config(Some(g.key[1]), Undefined, Undefined),
                             g.checkpoint))

-----------------------------------------------------------------------------
(* putWrites removes no row *)

\* The keys of the rows of a writes table.
WriteKeys(table) == {WriteKey(w) : w \in table}

\* C22: a putWrites call removes no row: every key stored before it is
\* stored after it, and every row outside the slots idx 0..k-1 of its k
\* writes (rows of the same task at idx >= k, rows of other tasks) is
\* unchanged; and the tuple getTuple returns holds every stored write of
\* its checkpoint as pendingWrites, a shorter call's writes and what an
\* earlier, longer call left behind them alike.
C22_PutWritesKeepsRows ==
  [][/\ Ends("putWrites") =>
          IF ret'.status = "ok"
          THEN /\ WriteKeys(writes) \subseteq WriteKeys(writes')
               /\ \A w \in writes :
                    WriteKey(w) \notin SlotKeys(ret'.args) => w \in writes'
               /\ Cardinality(writes') >= Cardinality(writes)
          ELSE writes' = writes
     /\ ( /\ Ends("getTuple")
          /\ ~ret'.dirty
          /\ ret'.status = "ok"
          /\ IsDefined(ret'.out) ) =>
          \A w \in OwnWrites(Val(ret'.out)) :
            \E i \in 1..Len(Val(ret'.out).pendingWrites) :
              Val(ret'.out).pendingWrites[i]
                = <<w.task_id, w.channel,
                    loadsTyped(Val(w.type), w.value.doc)>>]_vars

\* getTuple has returned, for one task, the write of a call of one write
\* followed by the second write of an earlier call of two.
C22_Witness ==
  /\ GetTupleAnswered
  /\ ret.status = "ok"
  /\ IsDefined(ret.out)
  /\ \E i \in 1..Len(Val(ret.out).pendingWrites) :
       /\ i + 1 <= Len(Val(ret.out).pendingWrites)
       /\ Val(ret.out).pendingWrites[i][1]
            = Val(ret.out).pendingWrites[i + 1][1]
       /\ Val(ret.out).pendingWrites[i][2] = "b"
       /\ Val(ret.out).pendingWrites[i][3] = JStr("v3")
       /\ Val(ret.out).pendingWrites[i + 1][2] = "b"
       /\ Val(ret.out).pendingWrites[i + 1][3] = JStr("v2")

-----------------------------------------------------------------------------
(* deleteThread and the other threads *)

\* What a getTuple call that names a thread returns in this state of the
\* store.
GetTupleOutcomes(config) ==
  LET rows == getTupleRows(Val(Field(config, "thread_id")),
                           OrElse(Field(config, "checkpoint_ns"), NsRoot),
                           Field(config, "checkpoint_id"))
  IN IF rows = {} THEN {Undefined}
     ELSE {Some(getTupleResult(config, row, TupleNow(row).checkpoint,
                               decodePendingWrites(PendingWritesColumn(row))))
             : row \in rows}

\* getTuple and list calls on either thread: the latest and a given
\* checkpoint of the root and of another namespace, and the lists of the
\* root namespace and of every namespace, with and without a limit.
FrameGetTupleInputs ==
  {Config(Some(t), ns, id)
     : t \in {T1, T2}, ns \in {Undefined, Some(NsChild)},
       id \in {Undefined, Some(<<1>>)}}

FrameListInputs ==
  {[config |-> Config(Some(t), ns, Undefined),
    options |-> ListOptions(limit, Undefined, <<>>)]
     : t \in {T1, T2}, ns \in {Undefined, Some(NsRoot)},
       limit \in {Undefined, Some(1)}}

\* C23: a deleteThread(T) that returns leaves every checkpoints row and
\* every writes row of another thread as it was, in every namespace, and
\* getTuple and list for another thread return after it what they returned
\* before it.
C23_DeleteThreadFrame ==
  [][DeleteThreadReturns =>
       /\ \A r \in checkpoints : r.thread_id # ret'.args => r \in checkpoints'
       /\ \A w \in writes : w.thread_id # ret'.args => w \in writes'
       /\ \A config \in FrameGetTupleInputs :
            Field(config, "thread_id") # Some(ret'.args) =>
              GetTupleOutcomes(config)' = GetTupleOutcomes(config)
       /\ \A a \in FrameListInputs :
            Field(a.config, "thread_id") # Some(ret'.args) =>
              ListOutcomes(a.config, a.options)'
                = ListOutcomes(a.config, a.options)]_vars

\* deleteThread has removed the rows of its thread from a store where
\* another thread has a checkpoint, which getTuple returns, and writes in
\* another namespace than that of the checkpoint.
C23_Witness ==
  /\ ret.op = "deleteThread"
  /\ ret.status = "ok"
  /\ ret.removed[1] + ret.removed[2] >= 1
  /\ \E r \in checkpoints :
       /\ r.thread_id # ret.args
       /\ GetTupleOutcomes(Config(Some(r.thread_id), Undefined, Undefined))
            # {Undefined}
       /\ \E w \in writes : /\ w.thread_id = r.thread_id
                            /\ w.checkpoint_ns # r.checkpoint_ns

====
